---- MODULE Spec2Model ----
(***************************************************************************)
(* Model of main.py: a Steam player-count tracker.  init_db() ensures the  *)
(* games and player_counts tables and the configured Game rows;            *)
(* track_games(appid_map) calls three HTTP collectors per identifier and   *)
(* appends one player_counts row per identifier through log_player_data.   *)
(***************************************************************************)
EXTENDS Integers, Sequences, FiniteSets, TLC

VARIABLES
    APPIDS,         \* the configured mapping, in order: <<[id, name], ...>>
    tables,         \* committed store: names of the tables that exist
    games,          \* committed store: rows of games, <<[id, name], ...>>
    player_counts,  \* committed store: rows of player_counts, in insert order
    pc,             \* position of the running process
    caller,         \* "main" (init_db then track_games) or "direct"
    appid_map,      \* track_games' argument
    idx,            \* track_games' position in appid_map (1-based)
    count,          \* track_games' local: get_current_player_count's result
    sale,           \* track_games' local: get_sale_info's result
    owners,         \* track_games' local: get_estimated_owners' result
    txn,            \* the open connection's transaction: its view of the store
    opened,         \* psycopg2.connect calls of this process that returned
    closed,         \* conn.close() calls of this process
    failure,        \* why the process died: "none", "store" or "collector"
    rows0,          \* history: Len(player_counts) when the process started
    fetched,        \* history: what the collectors returned, per iteration
    calls,          \* history: collector calls made, as <<function, index>>
    fn              \* a single collector call: its input and its result

vars == <<APPIDS, tables, games, player_counts, pc, caller, appid_map,
          idx, count, sale, owners, txn, opened, closed, failure, rows0,
          fetched, calls, fn>>

----------------------------------------------------------------------------
(* Bounds of the model. *)

MaxRows == 2

Ids == {1, 2}
Names == {"Dota 2", "PUBG"}

----------------------------------------------------------------------------
(* Python / JSON values that reach an INTEGER or TEXT column.  One record  *)
(* shape for all of them, so that any two values can be compared.          *)

IntV(n) == [tag |-> "int", n |-> n, s |-> ""]
NullV == [tag |-> "null", n |-> 0, s |-> ""]
StrV(s) == [tag |-> "str", n |-> 0, s |-> s]

\* The result of a call: a returned value, or an exception that propagates.
Returned(v) == [raised |-> FALSE, val |-> v]

----------------------------------------------------------------------------
(* get_current_player_count.  A response is what requests.get and          *)
(* response.json() produce: shape says how far lines 83-85 get.            *)

CountShapes ==
    {"network_error", "bad_json", "not_object", "no_response_key",
     "response_not_object", "no_player_count", "player_count"}

CountValues == {IntV(-1), IntV(0), IntV(1234), NullV, StrV("abc")}

CountResponses ==
    {[shape |-> s, player_count |-> NullV] :
        s \in CountShapes \ {"player_count"}}
    \cup {[shape |-> "player_count", player_count |-> v] : v \in CountValues}

\* Lines 83-85, the body of the try: exc says whether it raised.
TryPlayerCount(r) ==
    CASE r.shape \in {"network_error", "bad_json"} ->
            [exc |-> TRUE, val |-> NullV]          \* requests.get / .json()
      [] r.shape \in {"not_object", "no_response_key"} ->
            [exc |-> TRUE, val |-> NullV]          \* data['response']
      [] r.shape = "response_not_object" ->
            [exc |-> TRUE, val |-> NullV]          \* .get on a non-dict
      [] r.shape = "no_player_count" ->
            [exc |-> FALSE, val |-> IntV(0)]       \* .get's default
      [] OTHER ->
            [exc |-> FALSE, val |-> r.player_count]

\* A get_current_player_count without its except clause.
PlayerCountUncaught(r) ==
    LET t == TryPlayerCount(r)
    IN  IF t.exc THEN [raised |-> TRUE, val |-> NullV] ELSE Returned(t.val)

\* A get_current_player_count that returns 0 whenever the field is falsy.
PlayerCountOrZero(r) ==
    LET t == TryPlayerCount(r)
    IN  IF t.exc \/ t.val.tag = "null" THEN Returned(IntV(0))
        ELSE Returned(t.val)

get_current_player_count(r) ==
    LET t == TryPlayerCount(r)
    IN  IF t.exc THEN Returned(IntV(0)) ELSE Returned(t.val)

----------------------------------------------------------------------------
(* get_sale_info.  The response is keyed by the identifier as text.        *)

str(appid) == ToString(appid)

StoreKeys == {str(i) : i \in Ids}

SaleDefault ==
    [on_sale |-> FALSE, discount_percent |-> IntV(0),
     original_price |-> NullV, final_price |-> NullV]

DiscountValues == {IntV(0), IntV(50), NullV, StrV("abc")}
InitialValues == {IntV(1999), StrV("abc")}
FinalValues == {IntV(999)}

NoPrice ==
    [has_discount |-> FALSE, has_initial |-> FALSE, has_final |-> FALSE,
     discount_percent |-> NullV, initial |-> NullV, final |-> NullV]

PriceBlocks ==
    {[has_discount |-> hd, has_initial |-> hi, has_final |-> hf,
      discount_percent |-> IF hd THEN d ELSE NullV,
      initial |-> IF hi THEN i ELSE NullV,
      final |-> IF hf THEN f ELSE NullV] :
        hd \in BOOLEAN, hi \in BOOLEAN, hf \in BOOLEAN,
        d \in DiscountValues, i \in InitialValues, f \in FinalValues}

SaleShapes == {"network_error", "bad_json", "not_object", "object"}
SuccessShapes == {"missing", "false", "true"}
DataShapes == {"missing", "not_container", "no_price_overview",
               "price_overview"}

SaleResp(shape, key, success, data, price) ==
    [shape |-> shape, key |-> key, success |-> success, data |-> data,
     price |-> price]

SaleResponses ==
    {SaleResp(s, "1", "missing", "missing", NoPrice) :
        s \in SaleShapes \ {"object"}}
    \cup {SaleResp("object", k, sc, d, NoPrice) :
            k \in StoreKeys, sc \in SuccessShapes,
            d \in DataShapes \ {"price_overview"}}
    \cup {SaleResp("object", k, sc, "price_overview", p) :
            k \in StoreKeys, sc \in SuccessShapes, p \in PriceBlocks}

\* price['discount_percent'] > 0 raises TypeError unless the value is a number.
Comparable(v) == v.tag = "int"

SaleRecord(p) ==
    [on_sale |-> p.discount_percent.n > 0,
     discount_percent |-> p.discount_percent,
     original_price |-> p.initial,
     final_price |-> p.final]

\* Lines 97-115, the body of the try, in the order the lines run.
TrySaleInfo(appid, r) ==
    LET Raise == [exc |-> TRUE, val |-> SaleDefault]
        Neutral == [exc |-> FALSE, val |-> SaleDefault]
    IN  IF r.shape # "object" THEN Raise            \* get / json / data[...]
        ELSE IF r.key # str(appid) THEN Raise       \* KeyError, line 99
        ELSE IF r.success = "missing" THEN Raise    \* KeyError, line 100
        ELSE IF r.success = "false" THEN Neutral    \* line 110
        ELSE IF r.data = "missing" THEN Raise       \* KeyError, line 101
        ELSE IF r.data = "not_container" THEN Raise \* TypeError, line 102
        ELSE IF r.data = "no_price_overview" THEN Neutral    \* line 110
        ELSE IF ~r.price.has_discount THEN Raise    \* KeyError, line 105
        ELSE IF ~Comparable(r.price.discount_percent) THEN Raise \* TypeError
        ELSE IF ~r.price.has_initial THEN Raise     \* KeyError, line 107
        ELSE IF ~r.price.has_final THEN Raise       \* KeyError, line 108
        ELSE [exc |-> FALSE, val |-> SaleRecord(r.price)]

\* A get_sale_info that tests the discount with >= instead of >.
SaleInfoGeq(appid, r) ==
    LET t == TrySaleInfo(appid, r)
    IN  IF t.exc THEN Returned(SaleDefault)
        ELSE IF t.val = SaleDefault THEN Returned(SaleDefault)
        ELSE Returned([t.val EXCEPT !.on_sale = t.val.discount_percent.n >= 0])

get_sale_info(appid, r) ==
    LET t == TrySaleInfo(appid, r)
    IN  IF t.exc THEN Returned(SaleDefault) ELSE Returned(t.val)

----------------------------------------------------------------------------
(* get_estimated_owners. *)

OwnersShapes == {"network_error", "bad_json", "not_object", "no_owners",
                 "owners"}
OwnersValues == {StrV("1,000,000 .. 2,000,000"), NullV}

OwnersResponses ==
    {[shape |-> s, owners |-> NullV] : s \in OwnersShapes \ {"owners"}}
    \cup {[shape |-> "owners", owners |-> v] : v \in OwnersValues}

\* Lines 131-134, the body of the try.
TryOwners(r) ==
    CASE r.shape \in {"network_error", "bad_json", "not_object"} ->
            [exc |-> TRUE, val |-> NullV]
      [] r.shape = "no_owners" ->
            [exc |-> FALSE, val |-> StrV("unknown")]
      [] OTHER ->
            [exc |-> FALSE, val |-> r.owners]

get_estimated_owners(r) ==
    LET t == TryOwners(r)
    IN  IF t.exc THEN Returned(StrV("unknown")) ELSE Returned(t.val)

----------------------------------------------------------------------------
(* The store.  A transaction works on its own view of the three parts of   *)
(* the store (open: a connection holds it) and commit makes that view the  *)
(* committed store.  The SERIAL                                            *)
(* key of player_counts is a row's position in the sequence; the timestamp *)
(* column (line 144, the wall clock) is left out of the rows.              *)

Store(t, g, p) ==
    [open |-> FALSE, tables |-> t, games |-> g, player_counts |-> p]
NoTxn == Store({}, <<>>, <<>>)

HasGame(g, id) == \E j \in 1 .. Len(g) : g[j].id = id

\* An INSERT that overwrites the name on conflict (ON CONFLICT DO UPDATE).
UpsertGame(g, id, name) ==
    IF HasGame(g, id)
    THEN [j \in 1 .. Len(g) |->
            IF g[j].id = id THEN [id |-> id, name |-> name] ELSE g[j]]
    ELSE Append(g, [id |-> id, name |-> name])

\* An INSERT into a games table that has no conflict handling and no key.
InsertGameAlways(g, id, name) == Append(g, [id |-> id, name |-> name])

\* Line 69: INSERT ... ON CONFLICT (id) DO NOTHING, under PRIMARY KEY (id).
InsertGame(g, id, name) ==
    IF HasGame(g, id) THEN g ELSE Append(g, [id |-> id, name |-> name])

\* Lines 68-69: the first n rounds of the loop over APPIDS.items().
RECURSIVE InsertGames(_, _, _)
InsertGames(g, cfg, n) ==
    IF n = 0 THEN g
    ELSE InsertGame(InsertGames(g, cfg, n - 1), cfg[n].id, cfg[n].name)

\* Lines 45-69: the cur.execute calls of init_db, in order: CREATE TABLE
\* games, CREATE TABLE player_counts, one INSERT per entry of APPIDS.
InitStatementCount(cfg) == 2 + Len(cfg)

\* What the first n of init_db's statements make of the transaction's view.
InitStatements(t, cfg, n) ==
    [t EXCEPT !.tables = @ \cup (IF n >= 1 THEN {"games"} ELSE {})
                           \cup (IF n >= 2 THEN {"player_counts"} ELSE {}),
              !.games = InsertGames(@, cfg, IF n > 2 THEN n - 2 ELSE 0)]

\* A player_counts.game_id without its REFERENCES games(id).
NoForeignKey(g, appid) == TRUE

\* Line 56: game_id INTEGER REFERENCES games(id).
ForeignKeyOk(g, appid) == HasGame(g, appid)

\* Lines 58-63: an INTEGER column takes an integer or NULL, the TEXT column
\* a string or NULL.
IntegerColumnOk(v) == v.tag \in {"int", "null"}
TextColumnOk(v) == v.tag \in {"str", "null"}

\* A row built with the two price columns exchanged.
ObservationRowSwapped(appid, c, s, o) ==
    [game_id |-> appid, player_count |-> c, on_sale |-> s.on_sale,
     discount_percent |-> s.discount_percent,
     original_price |-> s.final_price, final_price |-> s.original_price,
     estimated_owners |-> o]

\* Lines 154-161: the parameters of the INSERT.
ObservationRow(appid, c, s, o) ==
    [game_id |-> appid, player_count |-> c, on_sale |-> s.on_sale,
     discount_percent |-> s.discount_percent,
     original_price |-> s.original_price, final_price |-> s.final_price,
     estimated_owners |-> o]

\* Lines 148-161: whether the store accepts the INSERT.
InsertAccepted(t, row) ==
    /\ "player_counts" \in t.tables
    /\ ForeignKeyOk(t.games, row.game_id)
    /\ IntegerColumnOk(row.player_count)
    /\ IntegerColumnOk(row.discount_percent)
    /\ IntegerColumnOk(row.original_price)
    /\ IntegerColumnOk(row.final_price)
    /\ TextColumnOk(row.estimated_owners)

\* A failed commit that leaves the transaction's work in the store.
KeptOnFailure(committed, t) == t

\* Lines 71, 163: a commit that fails leaves the committed store as it was.
RolledBack(committed, t) == committed

Committed == Store(tables, games, player_counts)

\* A return without conn.close().
ConnLeaked(n) == n

\* Lines 73, 165: conn.close().
ConnClosed(n) == n + 1

----------------------------------------------------------------------------
(* Configurations and arguments. *)

DistinctIds(m) ==
    \A j, k \in 1 .. Len(m) : j # k => m[j].id # m[k].id

Mappings(names) ==
    UNION {{m \in [1 .. n -> [id : Ids, name : names]] : DistinctIds(m)} :
             n \in 1 .. Cardinality(Ids)}

\* The mappings APPIDS may hold: identifiers 1 .. n in mapping order, each
\* under any display name.  track_games may be called with any mapping.
Configs == {m \in Mappings(Names) : \A j \in 1 .. Len(m) : m[j].id = j}
Arguments == Mappings({"PUBG"})

\* The same identifiers in the same order, some under another display name.
Renamed(c) ==
    {m \in Configs : Len(m) = Len(c) /\ m # c}

\* What the collectors are sent during a run: every response that makes the
\* try body raise, and one or two that it returns a value from.  A default
\* comes out of these only through the except clause.
RunCountResponses ==
    {r \in CountResponses :
        IF r.shape = "player_count"
        THEN r.player_count \in {IntV(-1), StrV("abc")}
        ELSE TryPlayerCount(r).exc}

RunSaleResponses(a) ==
    {r \in SaleResponses :
        IF r.data = "price_overview"
        THEN /\ r.key = str(a) /\ r.success = "true"
             /\ r.price.has_discount /\ r.price.has_initial
             /\ r.price.has_final
             /\ r.price.discount_percent \in {IntV(50), NullV}
        ELSE TrySaleInfo(a, r).exc}

RunOwnersResponses ==
    {r \in OwnersResponses :
        IF r.shape = "owners" THEN r.owners # NullV ELSE TryOwners(r).exc}

FnIdle ==
    [which |-> "none", appid |-> 1, applied |-> FALSE,
     count_resp |-> [shape |-> "network_error", player_count |-> NullV],
     sale_resp |-> SaleResp("network_error", "1", "missing", "missing", NoPrice),
     owners_resp |-> [shape |-> "network_error", owners |-> NullV],
     result |-> Returned(NullV), sale_result |-> Returned(SaleDefault)]

Init ==
    /\ APPIDS \in Configs
    /\ tables = {}
    /\ games = <<>>
    /\ player_counts = <<>>
    /\ pc = "idle"
    /\ caller = "direct"
    /\ appid_map = <<>>
    /\ idx = 0
    /\ count = NullV
    /\ sale = SaleDefault
    /\ owners = NullV
    /\ txn = NoTxn
    /\ opened = 0
    /\ closed = 0
    /\ failure = "none"
    /\ rows0 = 0
    /\ fetched = <<>>
    /\ calls = {}
    /\ fn = FnIdle

store == <<tables, games, player_counts>>
locals == <<count, sale, owners>>
history == <<rows0, fetched, calls>>

\* A process starts: fresh locals, no connection, nothing fetched.
Start(p, c, m) ==
    /\ pc = "idle"
    /\ pc' = p
    /\ caller' = c
    /\ appid_map' = m
    /\ idx' = IF p = "get_count" THEN 1 ELSE 0
    /\ rows0' = Len(player_counts)
    /\ UNCHANGED <<APPIDS, store, locals, txn, opened, closed, failure,
                   fetched, calls, fn>>

\* Lines 191-193: python main.py.
RunMain ==
    /\ Len(player_counts) + Len(APPIDS) <= MaxRows
    /\ Start("init_connect", "main", <<>>)

\* init_db() called on its own.
CallInitDb == Start("init_connect", "direct", <<>>)

\* track_games(m) called on its own, with any mapping.
CallTrackGames ==
    \E m \in Arguments :
        /\ Len(player_counts) + Len(m) <= MaxRows
        /\ Start("get_count", "direct", m)

\* Lines 10-17 edited between two runs (a display name changed): the store
\* outlives the configuration.
Reconfigure ==
    /\ pc = "idle"
    /\ \E c \in Renamed(APPIDS) : APPIDS' = c
    /\ UNCHANGED <<store, pc, caller, appid_map, idx, locals, txn, opened,
                   closed, failure, history, fn>>

\* An uncaught exception ends the process where it stands.
Abort(why) ==
    /\ pc' = "aborted"
    /\ failure' = why

\* Lines 41, 145: psycopg2.connect returns a connection, or raises.
Connect(next) ==
    \/ /\ pc' = next
       /\ opened' = opened + 1
       /\ txn' = [Committed EXCEPT !.open = TRUE]
       /\ UNCHANGED failure
    \/ /\ Abort("store")
       /\ UNCHANGED <<opened, txn>>

InitDbConnect ==
    /\ pc = "init_connect"
    /\ Connect("init_execute")
    /\ UNCHANGED <<APPIDS, store, caller, appid_map, idx, locals, closed,
                   history, fn>>

\* Lines 45-69: the statements run inside the transaction, or the k-th of
\* them raises with those before it done in the transaction's view.
InitDbExecute ==
    /\ pc = "init_execute"
    /\ \/ /\ txn' = InitStatements(txn, APPIDS, InitStatementCount(APPIDS))
          /\ pc' = "init_commit"
          /\ UNCHANGED failure
       \/ /\ \E k \in 1 .. InitStatementCount(APPIDS) :
                txn' = InitStatements(txn, APPIDS, k - 1)
          /\ Abort("store")
    /\ UNCHANGED <<APPIDS, store, caller, appid_map, idx, locals, opened,
                   closed, history, fn>>

\* Lines 71-74, and for main line 193: commit, close, return.
InitDbCommit ==
    /\ pc = "init_commit"
    /\ \/ /\ tables' = txn.tables
          /\ games' = txn.games
          /\ player_counts' = txn.player_counts
          /\ txn' = NoTxn
          /\ closed' = ConnClosed(closed)
          /\ pc' = IF caller = "main" THEN "get_count" ELSE "done"
          /\ appid_map' = IF caller = "main" THEN APPIDS ELSE appid_map
          /\ idx' = IF caller = "main" THEN 1 ELSE idx
          /\ UNCHANGED failure
       \/ /\ LET kept == RolledBack(Committed, txn)
             IN  /\ tables' = kept.tables
                 /\ games' = kept.games
                 /\ player_counts' = kept.player_counts
          /\ Abort("store")
          /\ UNCHANGED <<txn, closed, appid_map, idx>>
    /\ UNCHANGED <<APPIDS, caller, locals, opened, history, fn>>

appid == appid_map[idx].id

\* An iteration's entry in the history, before its collectors have returned.
NothingFetched == [count |-> NullV, sale |-> SaleDefault, owners |-> NullV]

\* Line 176.
GetCount ==
    /\ pc = "get_count"
    /\ \E r \in RunCountResponses :
          LET res == get_current_player_count(r)
          IN  IF res.raised
              THEN Abort("collector") /\ UNCHANGED <<count, fetched>>
              ELSE /\ pc' = "get_sale"
                   /\ count' = res.val
                   /\ fetched' = Append(fetched, [NothingFetched EXCEPT
                                                    !.count = res.val])
                   /\ UNCHANGED failure
    /\ calls' = calls \cup {<<"count", idx>>}
    /\ UNCHANGED <<APPIDS, store, caller, appid_map, idx, sale, owners, txn,
                   opened, closed, rows0, fn>>

\* Line 177.
GetSale ==
    /\ pc = "get_sale"
    /\ \E r \in RunSaleResponses(appid) :
          LET res == get_sale_info(appid, r)
          IN  IF res.raised
              THEN Abort("collector") /\ UNCHANGED <<sale, fetched>>
              ELSE /\ pc' = "get_owners"
                   /\ sale' = res.val
                   /\ fetched' = [fetched EXCEPT ![idx].sale = res.val]
                   /\ UNCHANGED failure
    /\ calls' = calls \cup {<<"sale", idx>>}
    /\ UNCHANGED <<APPIDS, store, caller, appid_map, idx, count, owners, txn,
                   opened, closed, rows0, fn>>

\* Line 178.
GetOwners ==
    /\ pc = "get_owners"
    /\ \E r \in RunOwnersResponses :
          LET res == get_estimated_owners(r)
          IN  IF res.raised
              THEN Abort("collector") /\ UNCHANGED <<owners, fetched>>
              ELSE /\ pc' = "log_connect"
                   /\ owners' = res.val
                   /\ fetched' = [fetched EXCEPT ![idx].owners = res.val]
                   /\ UNCHANGED failure
    /\ calls' = calls \cup {<<"owners", idx>>}
    /\ UNCHANGED <<APPIDS, store, caller, appid_map, idx, count, sale, txn,
                   opened, closed, rows0, fn>>

\* Lines 144-146.
LogConnect ==
    /\ pc = "log_connect"
    /\ Connect("log_execute")
    /\ UNCHANGED <<APPIDS, store, caller, appid_map, idx, locals, closed,
                   history, fn>>

\* Lines 148-161: the INSERT runs inside the transaction, or raises.
LogExecute ==
    /\ pc = "log_execute"
    /\ LET row == ObservationRow(appid, count, sale, owners)
       IN  \/ /\ InsertAccepted(txn, row)
              /\ txn' = [txn EXCEPT !.player_counts = Append(@, row)]
              /\ pc' = "log_commit"
              /\ UNCHANGED failure
           \/ /\ Abort("store")
              /\ UNCHANGED txn
    /\ UNCHANGED <<APPIDS, store, caller, appid_map, idx, locals, opened,
                   closed, history, fn>>

\* Lines 163-166, then lines 181-185: commit, close, print, next identifier.
LogCommit ==
    /\ pc = "log_commit"
    /\ \/ /\ tables' = txn.tables
          /\ games' = txn.games
          /\ player_counts' = txn.player_counts
          /\ txn' = NoTxn
          /\ closed' = ConnClosed(closed)
          /\ idx' = idx + 1
          /\ pc' = IF idx < Len(appid_map) THEN "get_count" ELSE "done"
          /\ UNCHANGED failure
       \/ /\ LET kept == RolledBack(Committed, txn)
             IN  /\ tables' = kept.tables
                 /\ games' = kept.games
                 /\ player_counts' = kept.player_counts
          /\ Abort("store")
          /\ UNCHANGED <<txn, closed, idx>>
    /\ UNCHANGED <<APPIDS, caller, appid_map, locals, opened, history, fn>>

\* The process is gone: its locals, its connections and its history with it.
Exit ==
    /\ pc \in {"done", "aborted"}
    /\ pc' = "idle"
    /\ caller' = "direct"
    /\ appid_map' = <<>>
    /\ idx' = 0
    /\ count' = NullV
    /\ sale' = SaleDefault
    /\ owners' = NullV
    /\ txn' = NoTxn
    /\ opened' = 0
    /\ closed' = 0
    /\ failure' = "none"
    /\ rows0' = Len(player_counts)
    /\ fetched' = <<>>
    /\ calls' = {}
    /\ UNCHANGED <<APPIDS, store, fn>>

Next ==
    \/ RunMain
    \/ CallInitDb
    \/ CallTrackGames
    \/ Reconfigure
    \/ InitDbConnect
    \/ InitDbExecute
    \/ InitDbCommit
    \/ GetCount
    \/ GetSale
    \/ GetOwners
    \/ LogConnect
    \/ LogExecute
    \/ LogCommit
    \/ Exit

Spec == Init /\ [][Next]_vars

----------------------------------------------------------------------------
(* One collector called once, on any response. *)

FnInputs ==
    {[FnIdle EXCEPT !.which = "count", !.count_resp = r] :
        r \in CountResponses}
    \cup {[FnIdle EXCEPT !.which = "sale", !.appid = a, !.sale_resp = r] :
            a \in Ids, r \in SaleResponses}
    \cup {[FnIdle EXCEPT !.which = "owners", !.owners_resp = r] :
            r \in OwnersResponses}

InitCollectors ==
    /\ APPIDS = [j \in 1 .. 1 |-> [id |-> 1, name |-> "PUBG"]]
    /\ tables = {}
    /\ games = <<>>
    /\ player_counts = <<>>
    /\ pc = "idle"
    /\ caller = "direct"
    /\ appid_map = <<>>
    /\ idx = 0
    /\ count = NullV
    /\ sale = SaleDefault
    /\ owners = NullV
    /\ txn = NoTxn
    /\ opened = 0
    /\ closed = 0
    /\ failure = "none"
    /\ rows0 = 0
    /\ fetched = <<>>
    /\ calls = {}
    /\ fn \in FnInputs

notFn == <<APPIDS, tables, games, player_counts, pc, caller, appid_map,
           idx, count, sale, owners, txn, opened, closed, failure, rows0,
           fetched, calls>>

CallPlayerCount ==
    /\ fn.which = "count" /\ ~fn.applied
    /\ fn' = [fn EXCEPT !.applied = TRUE,
                        !.result = get_current_player_count(fn.count_resp)]
    /\ UNCHANGED notFn

CallSaleInfo ==
    /\ fn.which = "sale" /\ ~fn.applied
    /\ fn' = [fn EXCEPT !.applied = TRUE,
                        !.sale_result = get_sale_info(fn.appid, fn.sale_resp)]
    /\ UNCHANGED notFn

CallOwners ==
    /\ fn.which = "owners" /\ ~fn.applied
    /\ fn' = [fn EXCEPT !.applied = TRUE,
                        !.result = get_estimated_owners(fn.owners_resp)]
    /\ UNCHANGED notFn

NextCollectors == CallPlayerCount \/ CallSaleInfo \/ CallOwners

SpecCollectors == InitCollectors /\ [][NextCollectors]_vars

----------------------------------------------------------------------------
(* Properties. *)

GameRows(g, id) == {k \in 1 .. Len(g) : g[k].id = id}

\* The rows this process has added to player_counts.
RowsOfRun == SubSeq(player_counts, rows0 + 1, Len(player_counts))

\* init_db returns on this step.
InitDbReturns == pc = "init_commit" /\ pc' \in {"get_count", "done"}

\* C1: when init_db returns, the games table holds exactly one row for every
\* configured identifier; and an init_db call made after an earlier init_db
\* call has completed (the games table exists) adds no Game row.
C1_InitDbIdempotent ==
    [][InitDbReturns =>
         /\ \A j \in 1 .. Len(APPIDS) :
               Cardinality(GameRows(games', APPIDS[j].id)) = 1
         /\ "games" \in tables => Len(games') = Len(games)]_vars

\* init_db has returned for the second time at least: the store already held
\* rows of an earlier run of main when this process started.
C1_Witness ==
    /\ pc = "get_count" /\ caller = "main" /\ idx = 1 /\ calls = {}
    /\ rows0 > 0
    /\ Len(games) = Len(APPIDS)

\* C2: a process dies of a store failure only, never of a collector; and a
\* track_games that has returned has added exactly one row per identifier of
\* its mapping, in mapping order.
C2_CollectorsNeverStopTheRun ==
    /\ pc = "aborted" => failure = "store"
    /\ pc = "done" =>
         /\ Len(RowsOfRun) = Len(appid_map)
         /\ \A j \in 1 .. Len(appid_map) :
               RowsOfRun[j].game_id = appid_map[j].id

\* track_games has returned after two identifiers with a collector having
\* failed on each (in a run a default comes only from an except clause).
C2_Witness ==
    /\ pc = "done" /\ Len(appid_map) = 2 /\ failure = "none"
    /\ fetched[1].count = IntV(0)
    /\ fetched[1].sale = SaleDefault
    /\ fetched[2].owners = StrV("unknown")
    /\ Len(RowsOfRun) = 2

\* The process died of a store failure inside log_player_data for the
\* identifier at position idx.
LogFailed == pc = "aborted" /\ failure = "store" /\ idx >= 1

\* C3: when log_player_data fails for the k-th identifier, the collectors
\* have been called for identifiers 1 .. k and no other, and the rows of this
\* run are those of identifiers 1 .. k-1: none for the k-th, none after it.
C3_StoreFailureAborts ==
    LogFailed =>
        /\ calls = {"count", "sale", "owners"} \X (1 .. idx)
        /\ Len(RowsOfRun) = idx - 1
        /\ \A j \in 1 .. idx - 1 : RowsOfRun[j].game_id = appid_map[j].id

\* log_player_data failed at commit for the second identifier, after the
\* first identifier's row had been committed.
C3_Witness ==
    /\ LogFailed /\ idx = 2 /\ Len(appid_map) = 2
    /\ txn.open /\ Len(txn.player_counts) = Len(player_counts) + 1
    /\ Len(RowsOfRun) = 1

\* C4: the j-th row a run has added has the j-th identifier of the mapping
\* and the values the collectors returned in the j-th iteration.
C4_RowCarriesItsIteration ==
    \A j \in 1 .. Len(RowsOfRun) :
        /\ j <= Len(fetched) /\ j <= Len(appid_map)
        /\ RowsOfRun[j].game_id = appid_map[j].id
        /\ RowsOfRun[j].player_count = fetched[j].count
        /\ RowsOfRun[j].on_sale = fetched[j].sale.on_sale
        /\ RowsOfRun[j].discount_percent = fetched[j].sale.discount_percent
        /\ RowsOfRun[j].original_price = fetched[j].sale.original_price
        /\ RowsOfRun[j].final_price = fetched[j].sale.final_price
        /\ RowsOfRun[j].estimated_owners = fetched[j].owners

\* A run has added two rows whose iterations fetched different values from
\* every collector.
C4_Witness ==
    /\ pc = "done" /\ Len(RowsOfRun) = 2
    /\ RowsOfRun[1].player_count # RowsOfRun[2].player_count
    /\ RowsOfRun[1].original_price = IntV(1999)
    /\ RowsOfRun[1].final_price = IntV(999)
    /\ RowsOfRun[2].original_price = NullV
    /\ RowsOfRun[1].estimated_owners # RowsOfRun[2].estimated_owners

\* C5: get_current_player_count never raises; it returns the player_count
\* field when the response object has one, and 0 when the response object
\* has none and on every exception.
C5_PlayerCount ==
    (fn.which = "count" /\ fn.applied) =>
        /\ ~fn.result.raised
        /\ fn.result.val =
              IF fn.count_resp.shape = "player_count"
              THEN fn.count_resp.player_count
              ELSE IntV(0)

\* The collector has returned a null player_count field as it is.
C5_Witness ==
    /\ fn.which = "count" /\ fn.applied
    /\ fn.count_resp.shape = "player_count"
    /\ fn.count_resp.player_count = NullV
    /\ fn.result.val = NullV

\* The response carries a usable price block for this identifier.
PriceBlockUsable(a, r) ==
    /\ r.shape = "object" /\ r.key = str(a)
    /\ r.success = "true" /\ r.data = "price_overview"
    /\ r.price.has_discount /\ r.price.has_initial /\ r.price.has_final
    /\ r.price.discount_percent.tag = "int"

\* C6: get_sale_info never raises; it returns the record copied from the
\* price block, with on_sale = discount_percent > 0, when the entry keyed by
\* the identifier as text has success true and a complete price block, and
\* the neutral default in every other case.
C6_SaleInfo ==
    (fn.which = "sale" /\ fn.applied) =>
        /\ ~fn.sale_result.raised
        /\ fn.sale_result.val =
              IF PriceBlockUsable(fn.appid, fn.sale_resp)
              THEN [on_sale |-> fn.sale_resp.price.discount_percent.n > 0,
                    discount_percent |-> fn.sale_resp.price.discount_percent,
                    original_price |-> fn.sale_resp.price.initial,
                    final_price |-> fn.sale_resp.price.final]
              ELSE SaleDefault

\* The collector has returned a record copied from a price block without a
\* discount.
C6_Witness ==
    /\ fn.which = "sale" /\ fn.applied
    /\ PriceBlockUsable(fn.appid, fn.sale_resp)
    /\ fn.sale_resp.price.discount_percent = IntV(0)
    /\ fn.sale_result.val.original_price = IntV(1999)
    /\ ~fn.sale_result.val.on_sale

\* C7: every row of player_counts has a player count that is a non-negative
\* integer.
C7_PlayerCountNonNegative ==
    \A j \in 1 .. Len(player_counts) :
        /\ player_counts[j].player_count.tag = "int"
        /\ player_counts[j].player_count.n >= 0

ReferentialIntegrity ==
    \A j \in 1 .. Len(player_counts) :
        Cardinality(GameRows(games, player_counts[j].game_id)) = 1

\* C8: every row of player_counts references exactly one row of games, in
\* every state; and the INSERT of log_player_data for an identifier without
\* a Game row fails as a store failure and leaves player_counts as it was.
C8_ReferentialIntegrity ==
    [][/\ ReferentialIntegrity'
       /\ (pc = "log_execute" /\ ~HasGame(games, appid)) =>
             /\ pc' = "aborted" /\ failure' = "store"
             /\ player_counts' = player_counts]_vars

\* log_player_data has failed at its INSERT for an identifier that has no
\* Game row, in a store where both tables exist.
C8_Witness ==
    /\ LogFailed /\ txn.open
    /\ "player_counts" \in tables
    /\ ~HasGame(games, appid_map[idx].id)
    /\ Len(txn.player_counts) = Len(player_counts)

IsPrefix(a, b) ==
    /\ Len(a) <= Len(b)
    /\ \A j \in 1 .. Len(a) : b[j] = a[j]

\* C9: no step changes or removes a row of games or of player_counts: each
\* table afterwards begins with the table as it was.
C9_RowsNeverChange ==
    [][IsPrefix(games, games') /\ IsPrefix(player_counts, player_counts')]_vars

\* init_db has returned while a Game row keeps a display name that is no
\* longer the configured one.
C9_Witness ==
    /\ pc = "get_count" /\ caller = "main" /\ idx = 1 /\ calls = {}
    /\ \E j \in 1 .. Len(APPIDS) : \E k \in 1 .. Len(games) :
          games[k].id = APPIDS[j].id /\ games[k].name # APPIDS[j].name

\* init_db calls of this process: one, unless it is track_games on its own.
InitDbCalls == IF caller = "main" \/ idx = 0 THEN 1 ELSE 0

ConnectionsOneAtATime ==
    /\ opened - closed \in {0, 1}
    /\ pc \in {"init_connect", "log_connect"} => opened = closed
    /\ opened <= InitDbCalls + idx
    /\ (pc = "done" /\ caller = "main") => opened = Len(APPIDS) + 1

\* C10 as amended: a run opens one connection in init_db and one per
\* log_player_data call (N+1 for N identifiers when nothing fails, never
\* more), each closed before the next is opened; a run that returns has
\* closed them all, and a run that a store failure ends after connecting
\* leaves that one connection unclosed.
C10_ConnectionsAmended ==
    /\ ConnectionsOneAtATime
    /\ pc = "done" => opened = closed
    /\ pc = "aborted" => opened - closed = (IF txn.open THEN 1 ELSE 0)

\* A run of main over two identifiers has returned with its three
\* connections closed.
C10_Witness ==
    /\ pc = "done" /\ caller = "main" /\ Len(APPIDS) = 2
    /\ opened = 3 /\ closed = 3

\* C10 as stated: as above, with every connection closed when the run ends,
\* however it ends.
C10_ConnectionsAllClosed ==
    /\ ConnectionsOneAtATime
    /\ pc \in {"done", "aborted"} => opened = closed

====
